---- MODULE Spec2Model ----
(***************************************************************************)
(* The Hoberman sphere of Myrmecology/The-Long-Tale: ScissorLink.js,       *)
(* HobermanSphere.js, controls.js and main.js as one state machine.        *)
(*                                                                         *)
(* Numbers.  JavaScript numbers are modelled in fixed point:               *)
(*   - lengths and vector components in units of 1/VScale;                 *)
(*   - the expansion factor in units of 1/FScale;                          *)
(*   - angles in units of (pi/2)/FScale, so that the opening angle         *)
(*     expansionFactor * pi/2 of ScissorLink.js:88 is the factor itself;   *)
(*   - speeds in tenths, time in units of pi/4 s, so that speed * time is  *)
(*     a whole number of angle units (AnglePerStep).                       *)
(* Products are divided with Div, which truncates toward zero as IEEE      *)
(* arithmetic is symmetric in the sign: (-a)*b = -(a*b).                   *)
(***************************************************************************)
EXTENDS Integers, Sequences, FiniteSets, TLC

\* ------------------------------------------------------------------ units
VScale == 10 ^ 4
FScale == 10 ^ 3
\* (0.1 rad/s) * (pi/4 s) = pi/40 rad = FScale/20 angle units
AnglePerStep == FScale \div 20

\* ------------------------------------------------------------ arithmetic
Abs(a) == IF a < 0 THEN -a ELSE a

Div(a, b) == IF a >= 0 THEN a \div b ELSE -((-a) \div b)

Max(a, b) == IF a >= b THEN a ELSE b

Min(a, b) == IF a <= b THEN a ELSE b

RECURSIVE SqrtIter(_, _)
SqrtIter(n, x) ==
    LET y == (x + n \div x) \div 2
    IN  IF y >= x THEN x ELSE SqrtIter(n, y)

\* Math.sqrt on a non-negative fixed-point square: the integer square root,
\* by Newton's iteration from above (46340 is the largest 32-bit root)
Sqrt(n) == IF n <= 0 THEN 0 ELSE SqrtIter(n, Min(n, 46340))

\* Math.sin, angle in units of (pi/2)/FScale, result in units of 1/VScale
\* (Bhaskara's rational form on each half period: exact at 0, pi/6, pi/2,
\* odd and 2*pi-periodic, increasing on [0, pi/2])
MathSin(a) ==
    LET halfWave(p) == (4 * p * 100) \div ((5 * FScale * FScale - p) \div 100)
        wave(r) == IF r < 2 * FScale
                   THEN halfWave(r * (2 * FScale - r))
                   ELSE -halfWave((r - 2 * FScale) * (4 * FScale - r))
    IN  wave(a % (4 * FScale))

MathCos(a) == MathSin(a + FScale)

\* ---------------------------------------------------------- THREE.Vector3
Vector3(x, y, z) == [x |-> x, y |-> y, z |-> z]

addVectors(a, b) == Vector3(a.x + b.x, a.y + b.y, a.z + b.z)

subVectors(a, b) == Vector3(a.x - b.x, a.y - b.y, a.z - b.z)

\* v.multiplyScalar(s), s in units of 1/VScale
multiplyScalar(v, s) ==
    Vector3(Div(v.x * s, VScale), Div(v.y * s, VScale), Div(v.z * s, VScale))

length(v) == Sqrt(v.x * v.x + v.y * v.y + v.z * v.z)

distanceTo(a, b) == length(subVectors(a, b))

\* v.divideScalar(s), s in units of 1/VScale
divideScalar(v, s) ==
    Vector3(Div(v.x * VScale, s), Div(v.y * VScale, s), Div(v.z * VScale, s))

\* l || 1
OrOne(l) == IF l = 0 THEN VScale ELSE l

\* v.normalize() is v.divideScalar(v.length() || 1)
normalize(v) == divideScalar(v, OrOne(length(v)))

crossVectors(a, b) ==
    Vector3(Div(a.y * b.z - a.z * b.y, VScale),
            Div(a.z * b.x - a.x * b.z, VScale),
            Div(a.x * b.y - a.y * b.x, VScale))

ZeroVector == Vector3(0, 0, 0)

UnitY == Vector3(0, VScale, 0)

UnitX == Vector3(VScale, 0, 0)

\* An orientation: quaternion.setFromUnitVectors(from, to) followed by the
\* rotateOnAxis(axis, angle) calls applied to it since, in order.
setFromUnitVectors(from, to) == [from |-> from, to |-> to, rotations |-> <<>>]

rotateOnAxis(q, axis, angle) ==
    [q EXCEPT !.rotations = Append(@, [axis |-> axis, angle |-> angle])]

IdentityQuaternion == setFromUnitVectors(UnitY, UnitY)

\* ------------------------------------------------------------- sequences
\* const x = value; then in(x): value is computed once, before in
Bind(value, in(_)) == CHOOSE result \in {in(x) : x \in {value}} : TRUE

RECURSIVE FoldRange(_, _, _, _)
\* step(... step(step(acc, lo), lo + 1) ..., hi): a loop over lo..hi in
\* order, for an acc that is a record or a sequence.  The range is split in
\* halves, and the first half is asked for its domain so that it is evaluated
\* before the second half starts.
FoldRange(step(_, _), acc, lo, hi) ==
    IF lo > hi THEN acc
    ELSE IF lo = hi THEN step(acc, lo)
    ELSE LET mid == (lo + hi) \div 2
             first == FoldRange(step, acc, lo, mid)
         IN  IF DOMAIN first = DOMAIN first
             THEN FoldRange(step, first, mid + 1, hi)
             ELSE acc

\* the concatenation of a sequence of sequences
Concat(ss) == FoldRange(LAMBDA acc, n : acc \o ss[n], <<>>, 1, Len(ss))

\* --------------------------------------- THREE.IcosahedronGeometry (r128)
\* The corners (-1, t, 0), ... of the icosahedron, t = (1 + sqrt 5)/2, before
\* they are pushed out to the sphere; in units of 1/RawOne, a multiple of 12,
\* so that the fractions i/cols of subdivideFace are exact.
RawOne == 12 * 10 ^ 3

RawT == 1618 * 12

IcosahedronVertices ==
    << Vector3(-RawOne, RawT, 0), Vector3(RawOne, RawT, 0),
       Vector3(-RawOne, -RawT, 0), Vector3(RawOne, -RawT, 0),
       Vector3(0, -RawOne, RawT), Vector3(0, RawOne, RawT),
       Vector3(0, -RawOne, -RawT), Vector3(0, RawOne, -RawT),
       Vector3(RawT, 0, -RawOne), Vector3(RawT, 0, RawOne),
       Vector3(-RawT, 0, -RawOne), Vector3(-RawT, 0, RawOne) >>

\* the faces, as triples of (0-based) corner indices
IcosahedronIndices ==
    << <<0, 11, 5>>, <<0, 5, 1>>, <<0, 1, 7>>, <<0, 7, 10>>, <<0, 10, 11>>,
       <<1, 5, 9>>, <<5, 11, 4>>, <<11, 10, 2>>, <<10, 7, 6>>, <<7, 1, 8>>,
       <<3, 9, 4>>, <<3, 4, 2>>, <<3, 2, 6>>, <<3, 6, 8>>, <<3, 8, 9>>,
       <<4, 9, 5>>, <<2, 4, 11>>, <<6, 2, 10>>, <<8, 6, 7>>, <<9, 8, 1>> >>

\* a.clone().lerp(b, num/den)
lerp(a, b, num, den) ==
    Vector3(a.x + Div((b.x - a.x) * num, den),
            a.y + Div((b.y - a.y) * num, den),
            a.z + Div((b.z - a.z) * num, den))

\* PolyhedronGeometry.subdivideFace: the corners of the (detail+1)^2 faces
\* that the face a, b, c is cut into, three per face
subdivideFace(a, b, c, detail) ==
    LET cols == detail + 1
        v(i, j) ==
            LET aj == lerp(a, c, i, cols)
                bj == lerp(b, c, i, cols)
                rows == cols - i
            IN  IF j = 0 /\ i = cols THEN aj ELSE lerp(aj, bj, j, rows)
        face(i, j) ==
            LET k == j \div 2
            IN  IF j % 2 = 0
                THEN << v(i, k + 1), v(i + 1, k), v(i, k) >>
                ELSE << v(i, k + 1), v(i + 1, k + 1), v(i + 1, k) >>
        row(i) == Concat([j \in 1..(2 * (cols - i) - 1) |-> face(i, j - 1)])
    IN  Concat([i \in 1..cols |-> row(i - 1)])

\* new THREE.IcosahedronGeometry(1, detail).attributes.position.array: the
\* corners of the first nFaces faces, subdivided, each pushed out to the unit
\* sphere (applyRadius), as a flat array x, y, z, x, y, z, ...
IcosahedronGeometry(detail, nFaces) ==
    LET corner(f, n) == IcosahedronVertices[IcosahedronIndices[f][n] + 1]
    IN  Bind(Concat([f \in 1..nFaces |->
                subdivideFace(corner(f, 1), corner(f, 2), corner(f, 3), detail)]),
             LAMBDA points :
        Bind([n \in 1..Len(points) |-> normalize(points[n])],
             LAMBDA unit :
        Concat([n \in 1..Len(unit) |-> << unit[n].x, unit[n].y, unit[n].z >>])))

\* ------------------------------------------------------ objects on the heap
\* Meshes, geometries and materials are objects with identity: the variables
\* meshes, geometries and materials map an object's number to its fields, and
\* a reference to the object is its number.  A world is the three heaps and
\* the children of the group the meshes are added to.
NoRef == 0

\* the next free number of a heap h
NewRef(h) == Cardinality(DOMAIN h) + 1

\* the heap h with the object o added under the next free number
Alloc(h, o) == [n \in DOMAIN h \cup {NewRef(h)} |-> IF n \in DOMAIN h THEN h[n] ELSE o]

EmptyHeap == [n \in {} |-> NoRef]

\* new THREE.CylinderGeometry(radius, radius, height, segments)
CylinderGeometry(radius, height) ==
    [type |-> "Cylinder", radius |-> radius, height |-> height, disposed |-> 0]

\* new THREE.SphereGeometry(radius, 16, 16)
SphereGeometry(radius) ==
    [type |-> "Sphere", radius |-> radius, height |-> 0, disposed |-> 0]

\* new THREE.Mesh(geometry, material): at the origin, not rotated, not scaled
Mesh(geometry, material) ==
    [geometry |-> geometry, material |-> material,
     position |-> ZeroVector, quaternion |-> IdentityQuaternion, scaleY |-> VScale,
     isConnectionStrut |-> FALSE, point1 |-> ZeroVector, point2 |-> ZeroVector]

\* geometry.dispose() / material.dispose(), counted
disposeObject(h, ref) == [h EXCEPT ![ref].disposed = @ + 1]

\* scene.add(mesh) / scene.remove(mesh) on the list of children
sceneRemove(children, ref) == SelectSeq(children, LAMBDA c : c # ref)

sceneAdd(children, ref) == Append(sceneRemove(children, ref), ref)

\* ------------------------------------------------------------ ScissorLink
\* ScissorLink.updateEndpoints
ScissorLink_updateEndpoints(link, openAngle, halfLength, perpAxis1, perpAxis2) ==
    LET offset == Div(halfLength * MathSin(openAngle), VScale)
        height == Div(halfLength * MathCos(openAngle), VScale)
        up == multiplyScalar(link.axis, height)
        down == multiplyScalar(link.axis, -height)
        out == multiplyScalar(perpAxis1, offset)
        back == multiplyScalar(perpAxis1, -offset)
    IN  [link EXCEPT !.endpoints =
            [top1 |-> addVectors(addVectors(link.position, up), out),
             top2 |-> addVectors(addVectors(link.position, up), back),
             bottom1 |-> addVectors(addVectors(link.position, down), out),
             bottom2 |-> addVectors(addVectors(link.position, down), back)]]

\* the reference vector is (0,1,0) whatever the axis
ReferenceUp_alwaysY(axis) == UnitY

\* the reference vector crossed with the axis: (0,1,0) unless |axis.y| >= 0.9
ReferenceUp(axis) == IF Abs(axis.y) * 10 < 9 * VScale THEN UnitY ELSE UnitX

\* ScissorLink.updateGeometry with the rotations applied to the orientation
\* the struts already have, not to a fresh one
ScissorLink_updateGeometry_accumulating(link, ms) ==
    LET openAngle == link.expansionFactor
        halfLength == link.strutLength \div 2
    IN  Bind(normalize(crossVectors(link.axis, ReferenceUp(link.axis))),
             LAMBDA perpAxis1 :
        Bind(normalize(crossVectors(link.axis, perpAxis1)),
             LAMBDA perpAxis2 :
        Bind(Div(halfLength * MathSin(openAngle), VScale),
             LAMBDA offset :
        [link |-> ScissorLink_updateEndpoints(link, openAngle, halfLength,
                                              perpAxis1, perpAxis2),
         meshes |->
            [ms EXCEPT
                ![link.strut1].position =
                    addVectors(link.position, multiplyScalar(perpAxis1, offset)),
                ![link.strut1].quaternion = rotateOnAxis(@, perpAxis2, openAngle),
                ![link.strut2].position =
                    addVectors(link.position, multiplyScalar(perpAxis1, -offset)),
                ![link.strut2].quaternion = rotateOnAxis(@, perpAxis2, -openAngle),
                ![link.pivot].position = link.position]])))

\* ScissorLink.updateGeometry: the link and the meshes after it
ScissorLink_updateGeometry(link, ms) ==
    LET openAngle == link.expansionFactor
        halfLength == link.strutLength \div 2
        upright == setFromUnitVectors(UnitY, link.axis)
    IN  Bind(normalize(crossVectors(link.axis, ReferenceUp(link.axis))),
             LAMBDA perpAxis1 :
        Bind(normalize(crossVectors(link.axis, perpAxis1)),
             LAMBDA perpAxis2 :
        Bind(Div(halfLength * MathSin(openAngle), VScale),
             LAMBDA offset :
        [link |-> ScissorLink_updateEndpoints(link, openAngle, halfLength,
                                              perpAxis1, perpAxis2),
         meshes |->
            [ms EXCEPT
                ![link.strut1].position =
                    addVectors(link.position, multiplyScalar(perpAxis1, offset)),
                ![link.strut1].quaternion = rotateOnAxis(upright, perpAxis2, openAngle),
                ![link.strut2].position =
                    addVectors(link.position, multiplyScalar(perpAxis1, -offset)),
                ![link.strut2].quaternion = rotateOnAxis(upright, perpAxis2, -openAngle),
                ![link.pivot].position = link.position]])))

\* ScissorLink.initialize, on the world w
ScissorLink_initialize(link, w) ==
    LET strutGeometry == NewRef(w.geometries)
        gs1 == Alloc(w.geometries, CylinderGeometry(link.strutRadius, link.strutLength))
        pivotGeometry == NewRef(gs1)
        gs2 == Alloc(gs1, SphereGeometry(link.strutRadius * 2))
        strut1 == NewRef(w.meshes)
        ms1 == Alloc(w.meshes, Mesh(strutGeometry, link.material))
        strut2 == NewRef(ms1)
        ms2 == Alloc(ms1, Mesh(strutGeometry, link.material))
        pivot == NewRef(ms2)
        ms3 == Alloc(ms2, Mesh(pivotGeometry, link.material))
        added == sceneAdd(sceneAdd(sceneAdd(w.children, strut1), strut2), pivot)
        made == [link EXCEPT !.strut1 = strut1, !.strut2 = strut2, !.pivot = pivot]
    IN  Bind(ScissorLink_updateGeometry(made, ms3),
             LAMBDA placed :
        [link |-> placed.link,
         world |-> [meshes |-> placed.meshes, geometries |-> gs2, children |-> added]])

\* new ScissorLink(scene, position, axis, length, radius, material)
ScissorLink_constructor(w, position, axis, len, radius, material) ==
    ScissorLink_initialize(
        [position |-> position, axis |-> normalize(axis),
         strutLength |-> len, strutRadius |-> radius, material |-> material,
         expansionFactor |-> FScale \div 2,
         strut1 |-> NoRef, strut2 |-> NoRef, pivot |-> NoRef,
         endpoints |-> [top1 |-> ZeroVector, top2 |-> ZeroVector,
                        bottom1 |-> ZeroVector, bottom2 |-> ZeroVector]],
        w)

\* the factor as it is given
Clamp01_unclamped(factor) == factor

\* Math.max(0, Math.min(1, factor))
Clamp01(factor) == Max(0, Min(FScale, factor))

\* ScissorLink.setExpansion
ScissorLink_setExpansion(link, ms, factor) ==
    ScissorLink_updateGeometry([link EXCEPT !.expansionFactor = Clamp01(factor)], ms)

\* ScissorLink.updateMaterial: the link and the meshes after it
ScissorLink_updateMaterial(link, ms, material) ==
    [link |-> [link EXCEPT !.material = material],
     meshes |-> [ms EXCEPT ![link.strut1].material = material,
                           ![link.strut2].material = material,
                           ![link.pivot].material = material]]

\* ScissorLink.dispose, on the world w
ScissorLink_dispose(link, w) ==
    [w EXCEPT
        !.children = sceneRemove(sceneRemove(sceneRemove(@, link.strut1),
                                             link.strut2), link.pivot),
        !.geometries = disposeObject(
                          disposeObject(
                             disposeObject(@, w.meshes[link.strut1].geometry),
                             w.meshes[link.strut2].geometry),
                          w.meshes[link.pivot].geometry)]

\* getCurrentRadius with the sine of the opening angle
ScissorLink_getCurrentRadius_sine(link) ==
    Div((link.strutLength \div 2) * MathSin(link.expansionFactor), VScale)

\* ScissorLink.getCurrentRadius
ScissorLink_getCurrentRadius(link) ==
    Div((link.strutLength \div 2) * MathCos(link.expansionFactor), VScale)

\* --------------------------------------------------------- HobermanSphere
\* metalness, roughness and emissiveIntensity in hundredths
Metallic == "metallic"

Matte == "matte"

Glossy == "glossy"

\* new THREE.MeshStandardMaterial({...}): emissive defaults to black (0) and
\* emissiveIntensity to 1
MeshStandardMaterial(color, metalness, roughness, emissive, emissiveIntensity) ==
    [color |-> color, metalness |-> metalness, roughness |-> roughness,
     emissive |-> emissive, emissiveIntensity |-> emissiveIntensity,
     disposed |-> 0, usersAtDispose |-> 0, geometriesLeftAtDispose |-> 0]

\* HobermanSphere.createMaterial
createMaterial(color, type) ==
    CASE type = Metallic -> MeshStandardMaterial(color, 90, 20, color, 10)
      [] type = Matte -> MeshStandardMaterial(color, 0, 90, color, 5)
      [] type = Glossy -> MeshStandardMaterial(color, 30, 10, color, 15)
      [] OTHER -> MeshStandardMaterial(color, 90, 20, 0, 100)

\* options.key || fallback, for a number: a missing key and 0 are falsy
OptionOr(options, key, fallback) ==
    IF key \in DOMAIN options /\ options[key] # 0 THEN options[key] ELSE fallback

\* options.key || fallback, for a string: a missing key and '' are falsy
OptionOrString(options, key, fallback) ==
    IF key \in DOMAIN options /\ options[key] # "" THEN options[key] ELSE fallback

DefaultMinRadius == 2 * VScale

DefaultMaxRadius == 8 * VScale

DefaultStrutRadius == 8 * (VScale \div 100)

DefaultSubdivisions == 2

DefaultColor == 43775

\* the configuration of the constructor (HobermanSphere.js:21-28)
Configuration(options) ==
    [minRadius |-> OptionOr(options, "minRadius", DefaultMinRadius),
     maxRadius |-> OptionOr(options, "maxRadius", DefaultMaxRadius),
     strutRadius |-> OptionOr(options, "strutRadius", DefaultStrutRadius),
     subdivisions |-> OptionOr(options, "subdivisions", DefaultSubdivisions),
     color |-> OptionOr(options, "color", DefaultColor),
     materialType |-> OptionOrString(options, "materialType", Metallic)]

\* the loop of buildSphere that turns the flat array into vectors
vertexPositions(array) ==
    [n \in 1..(Len(array) \div 3) |->
        Vector3(array[3 * n - 2], array[3 * n - 1], array[3 * n])]

\* 0.0001, the threshold of removeDuplicateVertices
DuplicateThreshold == VScale \div 10 ^ 4

\* v is pushed unless some kept u is nearer than threshold
keepUnlessWithin_inclusive(unique, v, threshold) ==
    IF \E n \in 1..Len(unique) : distanceTo(unique[n], v) <= threshold
    THEN unique
    ELSE Append(unique, v)

\* one step of removeDuplicateVertices, for vertices in a unit in which 0.0001
\* is threshold: v is pushed unless some kept u is near
keepUnlessWithin(unique, v, threshold) ==
    IF \E n \in 1..Len(unique) : distanceTo(unique[n], v) < threshold
    THEN unique
    ELSE Append(unique, v)

\* removeDuplicateVertices, for vertices in a unit in which 0.0001 is threshold
removeDuplicatesWithin(vertices, threshold) ==
    FoldRange(LAMBDA unique, n : keepUnlessWithin(unique, vertices[n], threshold),
              <<>>, 1, Len(vertices))

\* one step of removeDuplicateVertices, in units of 1/VScale
keepUnlessDuplicate(unique, v) == keepUnlessWithin(unique, v, DuplicateThreshold)

\* HobermanSphere.removeDuplicateVertices
removeDuplicateVertices(vertices) ==
    FoldRange(LAMBDA unique, n : keepUnlessDuplicate(unique, vertices[n]),
              <<>>, 1, Len(vertices))

\* createRadialScissorLink with the link's center on the sphere of maxRadius
createRadialScissorLink_fullRadius(cfg, material, w, vertex) ==
    LET direction == normalize(vertex)
        midPoint == multiplyScalar(direction, cfg.maxRadius)
        strutLength == cfg.maxRadius \div 2
    IN  ScissorLink_constructor(w, midPoint, direction, strutLength,
                                cfg.strutRadius, material)

\* HobermanSphere.createRadialScissorLink: the new link and the world after it
createRadialScissorLink(cfg, material, w, vertex) ==
    LET direction == normalize(vertex)
        midPoint == multiplyScalar(direction, cfg.maxRadius \div 2)
        strutLength == cfg.maxRadius \div 2
    IN  ScissorLink_constructor(w, midPoint, direction, strutLength,
                                cfg.strutRadius, material)

\* HobermanSphere.createConnectionStrut: the world after it
createConnectionStrut(cfg, material, w, point1, point2) ==
    LET direction == subVectors(point2, point1)
        len == length(direction)
        midpoint == multiplyScalar(addVectors(point1, point2), VScale \div 2)
        geometry == NewRef(w.geometries)
        strut == NewRef(w.meshes)
    IN  [w EXCEPT
            !.geometries = Alloc(@, CylinderGeometry(cfg.strutRadius \div 2, len)),
            !.meshes = Alloc(@,
                [Mesh(geometry, material) EXCEPT
                    !.position = midpoint,
                    !.quaternion = setFromUnitVectors(UnitY, normalize(direction)),
                    !.isConnectionStrut = TRUE,
                    !.point1 = point1,
                    !.point2 = point2]),
            !.children = sceneAdd(@, strut)]

\* 1.2, the threshold of createConnectingStruts
ConnectionThreshold == 12 * (VScale \div 10)

\* the pairs i < j that are at most threshold apart
connectedPairsWithin_inclusive(vertices, threshold) ==
    LET n == Len(vertices)
        near(i) == SelectSeq([k \in 1..(n - i) |-> << i, i + k >>],
                     LAMBDA p : distanceTo(vertices[p[1]], vertices[p[2]])
                                  <= threshold)
    IN  Concat([i \in 1..n |-> near(i)])

\* the pairs i < j of createConnectingStruts that are near, in loop order, for
\* vertices in a unit in which 1.2 is threshold
connectedPairsWithin(vertices, threshold) ==
    LET n == Len(vertices)
        near(i) == SelectSeq([k \in 1..(n - i) |-> << i, i + k >>],
                     LAMBDA p : distanceTo(vertices[p[1]], vertices[p[2]])
                                  < threshold)
    IN  Concat([i \in 1..n |-> near(i)])

\* the near pairs, in units of 1/VScale
connectedPairs(vertices) == connectedPairsWithin(vertices, ConnectionThreshold)

\* createConnectingStruts, for vertices in a unit in which 1.2 is threshold
createConnectingStrutsWithin(cfg, material, w, vertices, threshold) ==
    Bind(connectedPairsWithin(vertices, threshold),
         LAMBDA pairs :
    FoldRange(LAMBDA world, n :
                 createConnectionStrut(cfg, material, world,
                     vertices[pairs[n][1]], vertices[pairs[n][2]]),
              w, 1, Len(pairs)))

\* HobermanSphere.createConnectingStruts
createConnectingStruts(cfg, material, w, vertices) ==
    LET pairs == connectedPairs(vertices)
    IN  FoldRange(LAMBDA world, n :
                     createConnectionStrut(cfg, material, world,
                         vertices[pairs[n][1]], vertices[pairs[n][2]]),
                  w, 1, Len(pairs))

\* the forEach of buildSphere over uniqueVertices: one link per vertex
createLinks(cfg, material, w, vertices) ==
    FoldRange(LAMBDA built, n :
                 Bind(createRadialScissorLink(cfg, material, built.world, vertices[n]),
                      LAMBDA made :
                 [scissorLinks |-> Append(built.scissorLinks, made.link),
                  world |-> made.world]),
              [scissorLinks |-> <<>>, world |-> w], 1, Len(vertices))

\* HobermanSphere.buildSphere, from the first nFaces faces of the icosahedron
buildSphere(cfg, material, nFaces) ==
    Bind(IcosahedronGeometry(cfg.subdivisions, nFaces),
         LAMBDA vertices :
    Bind(removeDuplicateVertices(vertexPositions(vertices)),
         LAMBDA uniqueVertices :
    Bind(createLinks(cfg, material,
                     [meshes |-> EmptyHeap, geometries |-> EmptyHeap,
                      children |-> <<>>],
                     uniqueVertices),
         LAMBDA linked :
    [scissorLinks |-> linked.scissorLinks,
     world |-> createConnectingStruts(cfg, material, linked.world, uniqueVertices)])))

\* material.dispose(): counted; the first time, the number of meshes among
\* the children that still use the material and the number of geometries that
\* have not been disposed yet are noted
disposeMaterial(materials_, meshes_, children_, geometries_, ref) ==
    [materials_ EXCEPT
        ![ref].usersAtDispose =
            IF materials_[ref].disposed = 0
            THEN Cardinality({n \in 1..Len(children_) :
                                 meshes_[children_[n]].material = ref})
            ELSE @,
        ![ref].geometriesLeftAtDispose =
            IF materials_[ref].disposed = 0
            THEN Cardinality({g \in DOMAIN geometries_ : geometries_[g].disposed = 0})
            ELSE @,
        ![ref].disposed = @ + 1]

\* new HobermanSphere(scene, options): the fields of the object, with the
\* group's children, the group's rotation and the objects it made
HobermanSphere_constructor(options_, nFaces) ==
    LET cfg == Configuration(options_)
        material_ == NewRef(EmptyHeap)
        made == Alloc(EmptyHeap, createMaterial(cfg.color, cfg.materialType))
    IN  Bind(buildSphere(cfg, material_, nFaces),
             LAMBDA built :
        [config |-> cfg,
         expansionFactor |-> FScale \div 2,
         isAnimating |-> FALSE,
         animationSpeed |-> 3,
         rotationSpeed |-> 2,
         pitchSpeed |-> 1,
         currentPitch |-> 0,
         scissorLinks |-> built.scissorLinks,
         rotation |-> ZeroVector,
         children |-> built.world.children,
         groupInScene |-> TRUE,
         material |-> material_,
         meshes |-> built.world.meshes,
         geometries |-> built.world.geometries,
         materials |-> made])

\* the forEach of HobermanSphere.setExpansion over the links
setExpansionOfLinks(s, factor) ==
    FoldRange(LAMBDA t, n :
                 Bind(ScissorLink_setExpansion(t.scissorLinks[n], t.meshes, factor),
                      LAMBDA set :
                 [t EXCEPT !.scissorLinks[n] = set.link, !.meshes = set.meshes]),
              s, 1, Len(s.scissorLinks))

\* updateConnectionStruts for one child, with scale.y multiplied into the
\* scale the strut already has
updateConnectionStrut_compounding(s, child) ==
    IF ~s.meshes[child].isConnectionStrut THEN s
    ELSE LET currentRadius == s.config.minRadius
                 + Div((s.config.maxRadius - s.config.minRadius) * s.expansionFactor,
                       FScale)
             scaleFactor == Div(currentRadius * VScale, s.config.maxRadius)
             point1 == multiplyScalar(s.meshes[child].point1, scaleFactor)
             point2 == multiplyScalar(s.meshes[child].point2, scaleFactor)
             direction == subVectors(point2, point1)
             len == length(direction)
             height == s.geometries[s.meshes[child].geometry].height
         IN  [s EXCEPT
                 !.meshes[child].position =
                     multiplyScalar(addVectors(point1, point2), VScale \div 2),
                 !.meshes[child].scaleY = Div(@ * Div(len * VScale, height), VScale),
                 !.meshes[child].quaternion =
                     setFromUnitVectors(UnitY, normalize(direction))]

\* the body of the forEach of updateConnectionStruts for one child
updateConnectionStrut(s, child) ==
    IF ~s.meshes[child].isConnectionStrut THEN s
    ELSE LET currentRadius == s.config.minRadius
                 + Div((s.config.maxRadius - s.config.minRadius) * s.expansionFactor,
                       FScale)
             scaleFactor == Div(currentRadius * VScale, s.config.maxRadius)
             point1 == multiplyScalar(s.meshes[child].point1, scaleFactor)
             point2 == multiplyScalar(s.meshes[child].point2, scaleFactor)
             direction == subVectors(point2, point1)
             len == length(direction)
             midpoint == multiplyScalar(addVectors(point1, point2), VScale \div 2)
             height == s.geometries[s.meshes[child].geometry].height
         IN  [s EXCEPT
                 !.meshes[child].position = midpoint,
                 !.meshes[child].scaleY = Div(len * VScale, height),
                 !.meshes[child].quaternion =
                     setFromUnitVectors(UnitY, normalize(direction))]

\* HobermanSphere.updateConnectionStruts
updateConnectionStruts(s) ==
    FoldRange(LAMBDA t, n : updateConnectionStrut(t, t.children[n]),
              s, 1, Len(s.children))

\* HobermanSphere.setExpansion without the clamp
HobermanSphere_setExpansion_unclamped(s, factor) ==
    LET set == [s EXCEPT !.expansionFactor = factor]
    IN  updateConnectionStruts(setExpansionOfLinks(set, set.expansionFactor))

\* HobermanSphere.setExpansion
HobermanSphere_setExpansion(s, factor) ==
    LET clamped == [s EXCEPT !.expansionFactor = Clamp01(factor)]
    IN  updateConnectionStruts(setExpansionOfLinks(clamped, clamped.expansionFactor))

\* updateColor that retints the material and leaves config.color as it was
HobermanSphere_updateColor_untracked(s, color) ==
    [s EXCEPT !.materials[s.material].color = color,
              !.materials[s.material].emissive = color]

\* HobermanSphere.updateColor: color.setHex and emissive.setHex
HobermanSphere_updateColor(s, color) ==
    [s EXCEPT !.config.color = color,
              !.materials[s.material].color = color,
              !.materials[s.material].emissive = color]

\* HobermanSphere.updateMaterialType that forgets the connecting struts
HobermanSphere_updateMaterialType_linksOnly(s, type) ==
    LET typed == [s EXCEPT !.config.materialType = type]
        newMaterial == NewRef(s.materials)
        made == [typed EXCEPT
                    !.materials = Alloc(@, createMaterial(typed.config.color, type))]
        linked == FoldRange(LAMBDA t, n :
                     LET set == ScissorLink_updateMaterial(t.scissorLinks[n],
                                                           t.meshes, newMaterial)
                     IN  [t EXCEPT !.scissorLinks[n] = set.link,
                                   !.meshes = set.meshes],
                     made, 1, Len(made.scissorLinks))
    IN  [linked EXCEPT
            !.materials = disposeMaterial(@, linked.meshes, linked.children,
                                          linked.geometries, linked.material),
            !.material = newMaterial]

\* HobermanSphere.updateMaterialType
HobermanSphere_updateMaterialType(s, type) ==
    LET typed == [s EXCEPT !.config.materialType = type]
        newMaterial == NewRef(s.materials)
        made == [typed EXCEPT
                    !.materials = Alloc(@, createMaterial(typed.config.color, type))]
        linked == FoldRange(LAMBDA t, n :
                     LET set == ScissorLink_updateMaterial(t.scissorLinks[n],
                                                           t.meshes, newMaterial)
                     IN  [t EXCEPT !.scissorLinks[n] = set.link,
                                   !.meshes = set.meshes],
                     made, 1, Len(made.scissorLinks))
        strutted == FoldRange(LAMBDA t, n :
                       IF t.meshes[t.children[n]].isConnectionStrut
                       THEN [t EXCEPT !.meshes[t.children[n]].material = newMaterial]
                       ELSE t,
                       linked, 1, Len(linked.children))
    IN  [strutted EXCEPT
            !.materials = disposeMaterial(@, strutted.meshes, strutted.children,
                                          strutted.geometries, strutted.material),
            !.material = newMaterial]

\* HobermanSphere.startAnimation that toggles
HobermanSphere_startAnimation_toggling(s) == [s EXCEPT !.isAnimating = ~@]

\* HobermanSphere.startAnimation
HobermanSphere_startAnimation(s) == [s EXCEPT !.isAnimating = TRUE]

\* HobermanSphere.stopAnimation
HobermanSphere_stopAnimation(s) == [s EXCEPT !.isAnimating = FALSE]

\* HobermanSphere.toggleAnimation
HobermanSphere_toggleAnimation(s) == [s EXCEPT !.isAnimating = ~@]

\* Date.now() * 0.001 * animationSpeed, the argument of Math.sin in update,
\* in angle units
breathingPhase(dateNow, animationSpeed_) == dateNow * animationSpeed_ * AnglePerStep

\* Math.sin(Date.now() * 0.001 * animationSpeed) * 0.5 + 0.5
breathingCycle(dateNow, animationSpeed_) ==
    Div(MathSin(breathingPhase(dateNow, animationSpeed_)) * FScale, 2 * VScale)
        + FScale \div 2

\* HobermanSphere.update with the breathing driven by the deltas added up so
\* far (the time the pitch phase has run) instead of Date.now()
HobermanSphere_update_accumulating(s, deltaTime, dateNow) ==
    IF ~s.isAnimating THEN s
    ELSE LET pitch == s.currentPitch + s.pitchSpeed * deltaTime * AnglePerStep
             elapsed == pitch \div (s.pitchSpeed * AnglePerStep)
         IN  [HobermanSphere_setExpansion(s, breathingCycle(elapsed, s.animationSpeed))
              EXCEPT
                 !.rotation.y = @ + s.rotationSpeed * deltaTime * AnglePerStep,
                 !.currentPitch = pitch,
                 !.rotation.x = Div(MathSin(pitch) * 4, 10),
                 !.rotation.z = Div(MathCos(Div(pitch * 7, 10)) * 3, 10)]

\* HobermanSphere.update without the isAnimating test
HobermanSphere_update_always(s, deltaTime, dateNow) ==
    LET pitch == s.currentPitch + s.pitchSpeed * deltaTime * AnglePerStep
    IN  [HobermanSphere_setExpansion(s, breathingCycle(dateNow, s.animationSpeed))
         EXCEPT
            !.rotation.y = @ + s.rotationSpeed * deltaTime * AnglePerStep,
            !.currentPitch = pitch,
            !.rotation.x = Div(MathSin(pitch) * 4, 10),
            !.rotation.z = Div(MathCos(Div(pitch * 7, 10)) * 3, 10)]

\* HobermanSphere.update.  rotation.y in angle units, rotation.x and
\* rotation.z in units of 1/VScale rad
HobermanSphere_update(s, deltaTime, dateNow) ==
    IF ~s.isAnimating THEN s
    ELSE LET pitch == s.currentPitch + s.pitchSpeed * deltaTime * AnglePerStep
         IN  [HobermanSphere_setExpansion(s, breathingCycle(dateNow, s.animationSpeed))
              EXCEPT
                 !.rotation.y = @ + s.rotationSpeed * deltaTime * AnglePerStep,
                 !.currentPitch = pitch,
                 !.rotation.x = Div(MathSin(pitch) * 4, 10),
                 !.rotation.z = Div(MathCos(Div(pitch * 7, 10)) * 3, 10)]

\* the forEach of HobermanSphere.dispose over the children left in the group:
\* child.geometry.dispose(), then child.material.dispose()
disposeChild(s, child) ==
    [s EXCEPT
        !.geometries = disposeObject(@, s.meshes[child].geometry),
        !.materials = disposeMaterial(@, s.meshes, s.children,
                                      disposeObject(s.geometries,
                                                    s.meshes[child].geometry),
                                      s.meshes[child].material)]

\* HobermanSphere.dispose
HobermanSphere_dispose(s) ==
    LET unlinked == FoldRange(LAMBDA t, n :
                       LET w == ScissorLink_dispose(t.scissorLinks[n],
                                   [meshes |-> t.meshes, geometries |-> t.geometries,
                                    children |-> t.children])
                       IN  [t EXCEPT !.children = w.children,
                                     !.geometries = w.geometries],
                       s, 1, Len(s.scissorLinks))
        emptied == [unlinked EXCEPT !.scissorLinks = <<>>]
        released == FoldRange(LAMBDA t, n : disposeChild(t, t.children[n]),
                              emptied, 1, Len(emptied.children))
        removed == [released EXCEPT !.groupInScene = FALSE]
    IN  [removed EXCEPT
            !.materials = disposeMaterial(@, removed.meshes, removed.children,
                                          removed.geometries, removed.material)]

\* ---------------------------------------------------------------- Controls
\* no handler has thrown
NoError == "none"

\* the methods of class HobermanSphere
HobermanSphereMethods ==
    {"createMaterial", "buildSphere", "removeDuplicateVertices",
     "createRadialScissorLink", "createConnectingStruts", "createConnectionStrut",
     "setExpansion", "updateConnectionStruts", "updateColor", "updateMaterialType",
     "startAnimation", "stopAnimation", "toggleAnimation", "update", "getGroup",
     "dispose"}

\* calling a property that is undefined
TypeError(method) == "TypeError: " \o method \o " is not a function"

\* the outcome of hobermanSphere.method(...) before its body runs
Invoke(method) ==
    IF method \in HobermanSphereMethods THEN NoError ELSE TypeError(method)

\* Math.PI; the angles of the camera are in units of 1/VScale rad
MathPI == 31416

\* Controls.updateCameraPosition: camera.position, in units of 1/100, for the
\* spherical coordinates of cameraRotation
updateCameraPosition(cameraRotation) ==
    LET sin(a) == MathSin(Div(a * 2 * FScale, MathPI))
        cos(a) == MathCos(Div(a * 2 * FScale, MathPI))
        times(a, b) == Div(a * b, VScale)
        radius == cameraRotation.radius \div 100
    IN  Vector3(times(times(radius, sin(cameraRotation.phi)), cos(cameraRotation.theta)),
                times(radius, cos(cameraRotation.phi)),
                times(times(radius, sin(cameraRotation.phi)), sin(cameraRotation.theta)))

\* new Controls(hobermanSphere, camera, renderer, scene), with the mouse and
\* the cameraRotation of initOrbitControls
Controls_constructor ==
    LET cameraRotation == [theta |-> 0, phi |-> MathPI \div 4, radius |-> 25 * VScale]
    IN  [isAnimating |-> FALSE, glowEnabled |-> FALSE,
         mouse |-> [isDragging |-> FALSE, previousX |-> 0, previousY |-> 0],
         cameraRotation |-> cameraRotation,
         cameraPosition |-> updateCameraPosition(cameraRotation)]

\* the body of onMouseMove and onTouchMove once the drag is known to be on:
\* the pointer has moved to (clientX, clientY)
Controls_rotate(c, clientX, clientY) ==
    LET deltaX == clientX - c.mouse.previousX
        deltaY == clientY - c.mouse.previousY
        phi == c.cameraRotation.phi + deltaY * (VScale \div 100)
        turned == [theta |-> c.cameraRotation.theta + deltaX * (VScale \div 100),
                   phi |-> Max(VScale \div 10, Min(MathPI - VScale \div 10, phi)),
                   radius |-> c.cameraRotation.radius]
    IN  [c EXCEPT !.cameraRotation = turned,
                  !.cameraPosition = updateCameraPosition(turned),
                  !.mouse.previousX = clientX,
                  !.mouse.previousY = clientY]

\* Controls.onMouseWheel
Controls_onMouseWheel(c, event) ==
    LET delta == IF event.deltaY > 0 THEN 1 ELSE -1
        radius == c.cameraRotation.radius + Div(delta * c.cameraRotation.radius, 100)
        zoomed == [c.cameraRotation EXCEPT
                      !.radius = Max(12 * VScale, Min(60 * VScale, radius))]
    IN  [c EXCEPT !.cameraRotation = zoomed,
                  !.cameraPosition = updateCameraPosition(zoomed)]

HexDigits ==
    << "0", "1", "2", "3", "4", "5", "6", "7", "8", "9",
       "a", "b", "c", "d", "e", "f" >>

IsHexDigit(ch) == \E n \in 1..16 : HexDigits[n] = ch

HexValue(ch) == (CHOOSE n \in 1..16 : HexDigits[n] = ch) - 1

\* hexColor.replace('#', ''): the first '#' is removed
replaceHash(chars) ==
    IF \E n \in 1..Len(chars) : chars[n] = "#"
    THEN LET first == CHOOSE n \in 1..Len(chars) :
                         /\ chars[n] = "#"
                         /\ \A m \in 1..(n - 1) : chars[m] # "#"
         IN  SubSeq(chars, 1, first - 1) \o SubSeq(chars, first + 1, Len(chars))
    ELSE chars

NaN == "NaN"

\* parseInt(chars, 16): the hexadecimal digits chars starts with
RECURSIVE parseHex(_, _, _)
parseHex(chars, n, acc) ==
    IF n > Len(chars) \/ ~IsHexDigit(chars[n]) THEN acc
    ELSE parseHex(chars, n + 1, acc * 16 + HexValue(chars[n]))

parseInt16(chars) ==
    IF chars = << >> \/ ~IsHexDigit(chars[1]) THEN NaN ELSE parseHex(chars, 1, 0)

\* updateGlowEffect of main.js, when the glow has changed: the materials
\* after the traverse
updateGlowEffect(s, shouldGlow, glowWas) ==
    IF shouldGlow = glowWas THEN s
    ELSE
    [s EXCEPT
        !.materials =
            [m \in DOMAIN @ |->
                IF \E n \in 1..Len(s.children) : s.meshes[s.children[n]].material = m
                THEN [@[m] EXCEPT !.emissiveIntensity = IF shouldGlow THEN 40 ELSE 10]
                ELSE @[m]]]

\* ------------------------------------------------------------------ bounds
\* the faces of the icosahedron that the bounded assembly is built from
MaxFaces == 1

\* the wall clock runs from 0 to MaxClock
MaxClock == 2

\* the materials ever made
MaxMaterials == 2

\* the frames that update may animate
MaxAnimatedFrames == 2

\* the frames that may reach renderer.render
MaxRendered == 2

\* the vertices given to removeDuplicateVertices
MaxVertices == 3

\* the wheel events counted from the radius of the constructor or from a
\* radius at which the wheel has stopped
MaxWheel == 2

\* theta stays within MaxTheta rad of 0
MaxTheta == 1

\* ------------------------------------------------------------------ inputs
\* createHobermanSphere of main.js
MainOptions ==
    [minRadius |-> 15 * (VScale \div 10), maxRadius |-> 10 * VScale,
     strutRadius |-> 8 * (VScale \div 100), subdivisions |-> 2,
     color |-> 43775, materialType |-> Metallic]

\* the same with one subdivision less
SmallOptions == [MainOptions EXCEPT !.subdivisions = 1]

\* the factors given to setExpansion: -1, 0, 0.25, 1 and 2
FactorInputs == {-FScale, 0, FScale \div 4, FScale, 2 * FScale}

\* 0xff4444
ColorInputs == {16729156}

\* a kind of createMaterial and one it does not know
MaterialTypeInputs == {Matte, "wireframe"}

\* clock.getDelta(), in time units
DeltaTimeInputs == {1, 2}

\* the values given to Controls.updateSpeed, in tenths: -1, 0 and 1
SpeedInputs == {-10, 0, 10}

\* the values of the colour picker: '#ff4444' and '#00aaff'
HexColorInputs ==
    { << "#", "f", "f", "4", "4", "4", "4" >>,
      << "#", "0", "0", "a", "a", "f", "f" >> }

\* the options of an assembly built from the whole icosahedron: subdivision
\* level 0, level 1 and no level with radii 2 and 8, and level 1 with the
\* radii of main.js
BuildOptions ==
    { [minRadius |-> 2 * VScale, maxRadius |-> 8 * VScale, subdivisions |-> 0],
      [minRadius |-> 2 * VScale, maxRadius |-> 8 * VScale, subdivisions |-> 1],
      [minRadius |-> 2 * VScale, maxRadius |-> 8 * VScale],
      [minRadius |-> 15 * (VScale \div 10), maxRadius |-> 10 * VScale,
       subdivisions |-> 1] }

\* the arguments of new ScissorLink
LinkPositions == {Vector3(VScale, 0, 0), Vector3(0, 2 * VScale, VScale)}

\* (1,0,0), (0,2,0), (1,0,1), the zero vector, (0,-1,0) and the unit vectors
\* with y = 0.89 and y = 0.9
LinkAxes ==
    {Vector3(VScale, 0, 0), Vector3(0, 2 * VScale, 0),
     Vector3(VScale, 0, VScale), ZeroVector, Vector3(0, -VScale, 0),
     Vector3(4560, 8900, 0), Vector3(4359, 9000, 0)}

LinkLengths == {2 * VScale, 3 * VScale}

LinkRadius == 8 * (VScale \div 100)

\* mouse events, by the position of the pointer
MouseEvents ==
    {[clientX |-> 0, clientY |-> 0], [clientX |-> 100, clientY |-> 100],
     [clientX |-> 100, clientY |-> 400]}

\* wheel events: towards the user, none and away
WheelEvents == {[deltaY |-> -100], [deltaY |-> 0], [deltaY |-> 100]}

\* touch events: one finger at each position, two fingers, and (for touchend)
\* no finger left
TouchEvents ==
    {[touches |-> << e >>] : e \in MouseEvents}
        \cup {[touches |-> << [clientX |-> 0, clientY |-> 0],
                              [clientX |-> 100, clientY |-> 100] >>],
              [touches |-> << >>]}

\* The vertices given to removeDuplicateVertices and createConnectingStruts
\* are in units of 1/VertexScale, so that 0.00005 is a whole number.
VertexScale == 2 * VScale

\* 0.0001 and 1.2 in units of 1/VertexScale
VertexDuplicateThreshold == VertexScale \div 10 ^ 4

VertexConnectionThreshold == 12 * (VertexScale \div 10)

\* (1, 0, 0); the points 0.00005, 0.0001 and 0.0002 away from it; the unit
\* vectors at chord distance 1.19, 1.2 (exactly) and 1.21 from it
VertexInputs ==
    {Vector3(VertexScale, 0, 0), Vector3(VertexScale, 1, 0),
     Vector3(VertexScale, 2, 0), Vector3(VertexScale, 4, 0),
     Vector3(5839, 19129, 0), Vector3(5600, 19200, 0), Vector3(5359, 19269, 0)}

\* ------------------------------------------------------------------- state
VARIABLES
    options,          \* the options given to the constructor
    baseFaces,        \* the faces of the icosahedron the assembly is built from
    config,           \* HobermanSphere.config
    expansionFactor,  \* HobermanSphere.expansionFactor
    isAnimating,      \* HobermanSphere.isAnimating
    animationSpeed,   \* HobermanSphere.animationSpeed, in tenths
    rotationSpeed,    \* HobermanSphere.rotationSpeed, in tenths
    pitchSpeed,       \* HobermanSphere.pitchSpeed, in tenths
    currentPitch,     \* HobermanSphere.currentPitch, in angle units
    scissorLinks,     \* HobermanSphere.scissorLinks
    rotation,         \* HobermanSphere.sphereGroup.rotation
    children,         \* HobermanSphere.sphereGroup.children
    groupInScene,     \* whether sphereGroup is a child of the scene
    material,         \* HobermanSphere.material
    meshes,           \* the THREE.Mesh objects
    geometries,       \* the THREE.BufferGeometry objects
    materials,        \* the THREE.Material objects
    now,              \* Date.now(), in time units
    disposed,         \* whether HobermanSphere.dispose has run
    controls,         \* the Controls object of main.js
    glowEnabled,      \* glowEnabled of main.js
    rendered,         \* the frames that reached renderer.render
    lastFrame,        \* when the last frame that animated ran, and its phase
    error,            \* the exception that ended the last handler, or NoError
    lastCall,         \* the last operation and its argument
    roundTrip         \* progress through setExpansion(0), (1), (0)

sphereVars ==
    << config, expansionFactor, isAnimating, animationSpeed, rotationSpeed,
       pitchSpeed, currentPitch, scissorLinks, rotation, children, groupInScene,
       material, meshes, geometries, materials >>

pageVars == << controls, glowEnabled, rendered, lastFrame, error >>

vars ==
    << options, baseFaces, sphereVars, now, disposed, pageVars, lastCall,
       roundTrip >>

\* the HobermanSphere object (this)
Sphere ==
    [config |-> config, expansionFactor |-> expansionFactor,
     isAnimating |-> isAnimating, animationSpeed |-> animationSpeed,
     rotationSpeed |-> rotationSpeed, pitchSpeed |-> pitchSpeed,
     currentPitch |-> currentPitch, scissorLinks |-> scissorLinks,
     rotation |-> rotation, children |-> children, groupInScene |-> groupInScene,
     material |-> material, meshes |-> meshes, geometries |-> geometries,
     materials |-> materials]

\* the HobermanSphere object is s in the next state
Becomes(s) ==
    /\ config' = s.config
    /\ expansionFactor' = s.expansionFactor
    /\ isAnimating' = s.isAnimating
    /\ animationSpeed' = s.animationSpeed
    /\ rotationSpeed' = s.rotationSpeed
    /\ pitchSpeed' = s.pitchSpeed
    /\ currentPitch' = s.currentPitch
    /\ scissorLinks' = s.scissorLinks
    /\ rotation' = s.rotation
    /\ children' = s.children
    /\ groupInScene' = s.groupInScene
    /\ material' = s.material
    /\ meshes' = s.meshes
    /\ geometries' = s.geometries
    /\ materials' = s.materials

\* the record of a call; repeated: a setExpansion that follows a setExpansion
\* with the same argument
Call(op, arg) ==
    [op |-> op, arg |-> arg,
     repeated |-> op = "setExpansion" /\ lastCall.op = op /\ lastCall.arg = arg]

\* position, scale and orientation of every connecting strut of s
StrutGeometry(s) ==
    [n \in {m \in DOMAIN s.meshes : s.meshes[m].isConnectionStrut} |->
        [position |-> s.meshes[n].position, scaleY |-> s.meshes[n].scaleY,
         quaternion |-> s.meshes[n].quaternion]]

NoRoundTrip == [stage |-> 0, original |-> EmptyHeap]

\* no frame of animate has animated yet
NoFrame == [at |-> -1, phase |-> 0]

\* the round trip after setExpansion(factor) has led to s
RoundTripAfter(factor, s) ==
    CASE factor = 0 /\ roundTrip.stage = 2 ->
            [stage |-> 3, original |-> roundTrip.original]
      [] factor = 0 /\ roundTrip.stage # 2 ->
            [stage |-> 1, original |-> StrutGeometry(s)]
      [] factor = FScale /\ roundTrip.stage = 1 ->
            [stage |-> 2, original |-> roundTrip.original]
      [] OTHER -> NoRoundTrip

\* ----------------------------------------------------------------- actions
\* the page after new HobermanSphere(scene, options)
InitWith(options_, nFaces) ==
    \E s \in {HobermanSphere_constructor(options_, nFaces)} :
        /\ options = options_
        /\ baseFaces = nFaces
        /\ config = s.config
        /\ expansionFactor = s.expansionFactor
        /\ isAnimating = s.isAnimating
        /\ animationSpeed = s.animationSpeed
        /\ rotationSpeed = s.rotationSpeed
        /\ pitchSpeed = s.pitchSpeed
        /\ currentPitch = s.currentPitch
        /\ scissorLinks = s.scissorLinks
        /\ rotation = s.rotation
        /\ children = s.children
        /\ groupInScene = s.groupInScene
        /\ material = s.material
        /\ meshes = s.meshes
        /\ geometries = s.geometries
        /\ materials = s.materials
        /\ now = 0
        /\ disposed = FALSE
        /\ controls = Controls_constructor
        /\ glowEnabled = FALSE
        /\ rendered = 0
        /\ lastFrame = NoFrame
        /\ error = NoError
        /\ lastCall = [op |-> "constructor", arg |-> 0, repeated |-> FALSE]
        /\ roundTrip = NoRoundTrip

Init == InitWith(SmallOptions, MaxFaces)

\* hobermanSphere.setExpansion(factor)
setExpansion(factor) ==
    /\ ~disposed
    /\ \E s \in {HobermanSphere_setExpansion(Sphere, factor)} :
          /\ Becomes(s)
          /\ roundTrip' = RoundTripAfter(factor, s)
    /\ lastCall' = Call("setExpansion", factor)
    /\ UNCHANGED << options, baseFaces, now, disposed, pageVars >>

\* hobermanSphere.updateColor(color)
updateColor(color) ==
    /\ ~disposed
    /\ Becomes(HobermanSphere_updateColor(Sphere, color))
    /\ lastCall' = Call("updateColor", color)
    /\ roundTrip' = NoRoundTrip
    /\ UNCHANGED << options, baseFaces, now, disposed, pageVars >>

\* hobermanSphere.updateMaterialType(type)
updateMaterialType(type) ==
    /\ ~disposed
    /\ Cardinality(DOMAIN materials) < MaxMaterials
    /\ Becomes(HobermanSphere_updateMaterialType(Sphere, type))
    /\ lastCall' = Call("updateMaterialType", 0)
    /\ roundTrip' = NoRoundTrip
    /\ UNCHANGED << options, baseFaces, now, disposed, pageVars >>

\* hobermanSphere.startAnimation()
startAnimation ==
    /\ ~disposed
    /\ Becomes(HobermanSphere_startAnimation(Sphere))
    /\ lastCall' = Call("startAnimation", 0)
    /\ roundTrip' = NoRoundTrip
    /\ UNCHANGED << options, baseFaces, now, disposed, pageVars >>

\* hobermanSphere.stopAnimation()
stopAnimation ==
    /\ ~disposed
    /\ Becomes(HobermanSphere_stopAnimation(Sphere))
    /\ lastCall' = Call("stopAnimation", 0)
    /\ roundTrip' = NoRoundTrip
    /\ UNCHANGED << options, baseFaces, now, disposed, pageVars >>

\* hobermanSphere.toggleAnimation()
toggleAnimation ==
    /\ ~disposed
    /\ Becomes(HobermanSphere_toggleAnimation(Sphere))
    /\ lastCall' = Call("toggleAnimation", 0)
    /\ roundTrip' = NoRoundTrip
    /\ UNCHANGED << options, baseFaces, now, disposed, pageVars >>

\* hobermanSphere.update(deltaTime)
update(deltaTime) ==
    /\ ~disposed
    /\ isAnimating =>
          currentPitch + pitchSpeed * deltaTime * AnglePerStep
              <= MaxAnimatedFrames * pitchSpeed * AnglePerStep
    /\ Becomes(HobermanSphere_update(Sphere, deltaTime, now))
    /\ lastCall' = Call("update", deltaTime)
    /\ roundTrip' = NoRoundTrip
    /\ UNCHANGED << options, baseFaces, now, disposed, pageVars >>

\* hobermanSphere.dispose()
dispose ==
    /\ ~disposed
    /\ Becomes(HobermanSphere_dispose(Sphere))
    /\ disposed' = TRUE
    /\ lastCall' = Call("dispose", 0)
    /\ roundTrip' = NoRoundTrip
    /\ UNCHANGED << options, baseFaces, now, pageVars >>

\* the wall clock moves on
TimePasses ==
    /\ now < MaxClock
    /\ now' = now + 1
    /\ UNCHANGED << options, baseFaces, sphereVars, disposed, pageVars, lastCall,
                    roundTrip >>

Next ==
    \/ \E factor \in FactorInputs : setExpansion(factor)
    \/ \E color \in ColorInputs : updateColor(color)
    \/ \E type \in MaterialTypeInputs : updateMaterialType(type)
    \/ startAnimation
    \/ stopAnimation
    \/ toggleAnimation
    \/ \E deltaTime \in DeltaTimeInputs : update(deltaTime)
    \/ dispose
    \/ TimePasses

Spec == Init /\ [][Next]_vars

\* ------------------------------------------------- the page of main.js
\* a handler of the page has run on the assembly
Handled(op, arg) ==
    /\ lastCall' = Call(op, arg)
    /\ roundTrip' = NoRoundTrip
    /\ UNCHANGED << options, baseFaces, now, disposed >>

\* click on #toggle-btn: Controls.toggleAnimation
Controls_toggleAnimation ==
    /\ controls' = [controls EXCEPT !.isAnimating = ~@]
    /\ IF ~controls.isAnimating
       THEN /\ error' = Invoke("startAnimation")
            /\ Becomes(HobermanSphere_startAnimation(Sphere))
       ELSE /\ error' = Invoke("stopAnimation")
            /\ Becomes(HobermanSphere_stopAnimation(Sphere))
    /\ Handled("Controls.toggleAnimation", 0)
    /\ UNCHANGED << glowEnabled, rendered, lastFrame >>

\* input on #speed-slider: Controls.updateSpeed, which ends at its first
\* statement, the call of a method the assembly does not have
Controls_updateSpeed(speed) ==
    /\ error' = Invoke("setAnimationSpeed")
    /\ error' # NoError
    /\ Handled("Controls.updateSpeed", speed)
    /\ UNCHANGED << sphereVars, controls, glowEnabled, rendered, lastFrame >>

\* input on #color-picker: Controls.updateColor
Controls_updateColor(hexColor) ==
    LET colorValue == parseInt16(replaceHash(hexColor))
    IN  /\ error' = Invoke("updateColor")
        /\ Becomes(HobermanSphere_updateColor(Sphere, colorValue))
        /\ Handled("Controls.updateColor", colorValue)
        /\ UNCHANGED << controls, glowEnabled, rendered, lastFrame >>

\* change of #material-type: Controls.updateMaterialType
Controls_updateMaterialType(type) ==
    /\ Cardinality(DOMAIN materials) < MaxMaterials
    /\ error' = Invoke("updateMaterialType")
    /\ Becomes(HobermanSphere_updateMaterialType(Sphere, type))
    /\ Handled("Controls.updateMaterialType", 0)
    /\ UNCHANGED << controls, glowEnabled, rendered, lastFrame >>

\* change of #auto-rotate-toggle: Controls.toggleAutoRotate, which ends at its
\* first statement, the call of a method the assembly does not have
Controls_toggleAutoRotate(enabled) ==
    /\ error' = Invoke("setAutoRotate")
    /\ error' # NoError
    /\ Handled("Controls.toggleAutoRotate", IF enabled THEN 1 ELSE 0)
    /\ UNCHANGED << sphereVars, controls, glowEnabled, rendered, lastFrame >>

\* change of #glow-toggle: Controls.toggleGlow
Controls_toggleGlow(enabled) ==
    /\ controls' = [controls EXCEPT !.glowEnabled = enabled]
    /\ error' = NoError
    /\ Handled("Controls.toggleGlow", IF enabled THEN 1 ELSE 0)
    /\ UNCHANGED << sphereVars, glowEnabled, rendered, lastFrame >>

\* one frame of animate: update, updateGlowEffect, updateStats and, when
\* updateStats has not thrown, renderer.render
animate(deltaTime) ==
    LET shouldGlow == controls.glowEnabled
        thrown == Invoke("getExpansionFactor")
    IN  /\ isAnimating =>
              currentPitch + pitchSpeed * deltaTime * AnglePerStep
                  <= MaxAnimatedFrames * pitchSpeed * AnglePerStep
        /\ rendered < MaxRendered
        /\ Becomes(updateGlowEffect(HobermanSphere_update(Sphere, deltaTime, now),
                                    shouldGlow, glowEnabled))
        /\ glowEnabled' = shouldGlow
        /\ error' = thrown
        /\ rendered' = IF thrown = NoError THEN rendered + 1 ELSE rendered
        /\ lastFrame' = IF isAnimating
                        THEN [at |-> now, phase |-> breathingPhase(now, animationSpeed)]
                        ELSE lastFrame
        /\ Handled("animate", deltaTime)
        /\ UNCHANGED controls

NextApp ==
    \/ Controls_toggleAnimation
    \/ \E speed \in SpeedInputs : Controls_updateSpeed(speed)
    \/ \E hexColor \in HexColorInputs : Controls_updateColor(hexColor)
    \/ \E type \in MaterialTypeInputs : Controls_updateMaterialType(type)
    \/ \E enabled \in BOOLEAN : Controls_toggleAutoRotate(enabled)
    \/ \E enabled \in BOOLEAN : Controls_toggleGlow(enabled)
    \/ \E deltaTime \in DeltaTimeInputs : animate(deltaTime)
    \/ TimePasses

\* the page: the assembly driven by the controls and the frames of animate
SpecApp == Init /\ [][NextApp]_vars

\* ------------------------------ the toggle button beside direct calls
NextMixed ==
    \/ Controls_toggleAnimation
    \/ startAnimation
    \/ stopAnimation
    \/ toggleAnimation
    \/ \E deltaTime \in DeltaTimeInputs : update(deltaTime)
    \/ TimePasses

\* clicks on #toggle-btn, and startAnimation, stopAnimation, toggleAnimation
\* and update called on the assembly itself
SpecMixed == Init /\ [][NextMixed]_vars

\* ------------------------------------------------- the orbit of the camera
RECURSIVE wheelUntilStopped(_, _)
\* the Controls object after as many of the wheel event as change the radius
wheelUntilStopped(c, event) ==
    LET zoomed == Controls_onMouseWheel(c, event)
    IN  IF zoomed.cameraRotation.radius = c.cameraRotation.radius THEN c
        ELSE wheelUntilStopped(zoomed, event)

\* the Controls object as constructed, zoomed all the way in and all the way out
OrbitStarts ==
    {Controls_constructor} \cup
        {wheelUntilStopped(Controls_constructor, event) : event \in WheelEvents}

RECURSIVE WheelsFrom(_, _)
\* the radii that up to n wheel events lead to from the radii rs
WheelsFrom(rs, n) ==
    IF n = 0 THEN rs
    ELSE WheelsFrom(
            rs \cup {Controls_onMouseWheel([Controls_constructor EXCEPT
                                               !.cameraRotation.radius = r],
                                           event).cameraRotation.radius :
                        r \in rs, event \in WheelEvents},
            n - 1)

\* the page after the wheel has been turned from construction to a start
InitOrbit ==
    \E c \in OrbitStarts :
        \E s \in {HobermanSphere_constructor(SmallOptions, MaxFaces)} :
            /\ options = SmallOptions
            /\ baseFaces = MaxFaces
            /\ config = s.config
            /\ expansionFactor = s.expansionFactor
            /\ isAnimating = s.isAnimating
            /\ animationSpeed = s.animationSpeed
            /\ rotationSpeed = s.rotationSpeed
            /\ pitchSpeed = s.pitchSpeed
            /\ currentPitch = s.currentPitch
            /\ scissorLinks = s.scissorLinks
            /\ rotation = s.rotation
            /\ children = s.children
            /\ groupInScene = s.groupInScene
            /\ material = s.material
            /\ meshes = s.meshes
            /\ geometries = s.geometries
            /\ materials = s.materials
            /\ now = 0
            /\ disposed = FALSE
            /\ controls = c
            /\ glowEnabled = FALSE
            /\ rendered = 0
            /\ lastFrame = NoFrame
            /\ error = NoError
            /\ lastCall = [op |-> "onMouseWheel", arg |-> 0, repeated |-> FALSE]
            /\ roundTrip = NoRoundTrip

\* an event handler of the orbit controls has run
Orbited(op, arg) ==
    /\ error' = NoError
    /\ Handled(op, arg)
    /\ UNCHANGED << sphereVars, glowEnabled, rendered, lastFrame >>

\* mousedown on the canvas
onMouseDown(event) ==
    /\ controls' = [controls EXCEPT
                       !.mouse = [isDragging |-> TRUE, previousX |-> event.clientX,
                                  previousY |-> event.clientY]]
    /\ Orbited("onMouseDown", 0)

\* onMouseMove without the test of isDragging
onMouseMove_undragged(event) ==
    \E c \in {Controls_rotate(controls, event.clientX, event.clientY)} :
        /\ Abs(c.cameraRotation.theta) <= MaxTheta * VScale
        /\ controls' = c
        /\ Orbited("onMouseMove", 0)

\* mousemove on the canvas
onMouseMove(event) ==
    IF ~controls.mouse.isDragging
    THEN controls' = controls /\ Orbited("onMouseMove", 0)
    ELSE \E c \in {Controls_rotate(controls, event.clientX, event.clientY)} :
            /\ Abs(c.cameraRotation.theta) <= MaxTheta * VScale
            /\ controls' = c
            /\ Orbited("onMouseMove", 0)

\* mouseup on the canvas
onMouseUp ==
    /\ controls' = [controls EXCEPT !.mouse.isDragging = FALSE]
    /\ Orbited("onMouseUp", 0)

\* wheel on the canvas
onMouseWheel(event) ==
    \E c \in {Controls_onMouseWheel(controls, event)} :
        /\ c.cameraRotation.radius
              \in WheelsFrom({o.cameraRotation.radius : o \in OrbitStarts}, MaxWheel)
        /\ controls' = c
        /\ Orbited("onMouseWheel", event.deltaY)

\* touchstart on the canvas
onTouchStart(event) ==
    /\ Len(event.touches) > 0
    /\ controls' = IF Len(event.touches) = 1
                   THEN [controls EXCEPT
                            !.mouse = [isDragging |-> TRUE,
                                       previousX |-> event.touches[1].clientX,
                                       previousY |-> event.touches[1].clientY]]
                   ELSE controls
    /\ Orbited("onTouchStart", Len(event.touches))

\* touchmove on the canvas
onTouchMove(event) ==
    /\ Len(event.touches) > 0
    /\ IF ~controls.mouse.isDragging \/ Len(event.touches) # 1
       THEN controls' = controls /\ Orbited("onTouchMove", Len(event.touches))
       ELSE \E c \in {Controls_rotate(controls, event.touches[1].clientX,
                                       event.touches[1].clientY)} :
               /\ Abs(c.cameraRotation.theta) <= MaxTheta * VScale
               /\ controls' = c
               /\ Orbited("onTouchMove", Len(event.touches))

\* touchend on the canvas
onTouchEnd(event) ==
    /\ Len(event.touches) < 2
    /\ controls' = [controls EXCEPT !.mouse.isDragging = FALSE]
    /\ Orbited("onTouchEnd", Len(event.touches))

NextOrbit ==
    \/ \E event \in MouseEvents : onMouseDown(event)
    \/ \E event \in MouseEvents : onMouseMove(event)
    \/ onMouseUp
    \/ \E event \in WheelEvents : onMouseWheel(event)
    \/ \E event \in TouchEvents : onTouchStart(event)
    \/ \E event \in TouchEvents : onTouchMove(event)
    \/ \E event \in TouchEvents : onTouchEnd(event)

\* the mouse, wheel and touch events of the canvas
SpecOrbit == InitOrbit /\ [][NextOrbit]_vars

\* ------------------------------------- the assembly of a whole icosahedron
InitBuild == \E options_ \in BuildOptions : InitWith(options_, Len(IcosahedronIndices))

NextBuild ==
    \/ \E color \in ColorInputs : updateColor(color)
    \/ startAnimation
    \/ stopAnimation
    \/ toggleAnimation
    \/ TimePasses

\* construction from all twenty faces, then the calls that leave the links alone
SpecBuild == InitBuild /\ [][NextBuild]_vars

\* ------------------------------------------------------ a ScissorLink alone
\* the scene after new ScissorLink(scene, position, axis, length, radius,
\* material), with the material in use and a second one at hand
InitLink ==
    \E position \in LinkPositions, axis \in LinkAxes, len \in LinkLengths :
        \E made \in {ScissorLink_constructor(
                        [meshes |-> EmptyHeap, geometries |-> EmptyHeap,
                         children |-> << >>],
                        position, axis, len, LinkRadius, 1)} :
            /\ options = [position |-> position, axis |-> axis, length |-> len,
                          radius |-> LinkRadius]
            /\ baseFaces = 0
            /\ config = << >>
            /\ expansionFactor = 0
            /\ isAnimating = FALSE
            /\ animationSpeed = 0
            /\ rotationSpeed = 0
            /\ pitchSpeed = 0
            /\ currentPitch = 0
            /\ scissorLinks = << made.link >>
            /\ rotation = ZeroVector
            /\ children = made.world.children
            /\ groupInScene = TRUE
            /\ material = 1
            /\ meshes = made.world.meshes
            /\ geometries = made.world.geometries
            /\ materials = Alloc(Alloc(EmptyHeap, createMaterial(DefaultColor, Metallic)),
                                 createMaterial(DefaultColor, Matte))
            /\ now = 0
            /\ disposed = FALSE
            /\ controls = Controls_constructor
            /\ glowEnabled = FALSE
            /\ rendered = 0
            /\ lastFrame = NoFrame
            /\ error = NoError
            /\ lastCall = [op |-> "ScissorLink", arg |-> 0, repeated |-> FALSE]
            /\ roundTrip = NoRoundTrip

linkOnly ==
    << options, baseFaces, config, expansionFactor, isAnimating, animationSpeed, rotationSpeed,
       pitchSpeed, currentPitch, rotation, groupInScene, now, pageVars, roundTrip >>

\* link.setExpansion(factor)
link_setExpansion(factor) ==
    LET set == ScissorLink_setExpansion(scissorLinks[1], meshes, factor)
    IN  /\ ~disposed
        /\ scissorLinks' = << set.link >>
        /\ meshes' = set.meshes
        /\ lastCall' = [op |-> "ScissorLink.setExpansion", arg |-> factor,
                        repeated |-> lastCall.op = "ScissorLink.setExpansion"
                                       /\ lastCall.arg = factor]
        /\ UNCHANGED << linkOnly, children, material, geometries, materials, disposed >>

\* link.updateMaterial(newMaterial)
link_updateMaterial(newMaterial) ==
    LET set == ScissorLink_updateMaterial(scissorLinks[1], meshes, newMaterial)
    IN  /\ ~disposed
        /\ scissorLinks' = << set.link >>
        /\ meshes' = set.meshes
        /\ material' = newMaterial
        /\ lastCall' = [op |-> "ScissorLink.updateMaterial", arg |-> newMaterial,
                        repeated |-> FALSE]
        /\ UNCHANGED << linkOnly, children, geometries, materials, disposed >>

\* link.getCurrentRadius()
link_getCurrentRadius ==
    /\ ~disposed
    /\ lastCall' = [op |-> "ScissorLink.getCurrentRadius",
                    arg |-> ScissorLink_getCurrentRadius(scissorLinks[1]),
                    repeated |-> FALSE]
    /\ UNCHANGED << linkOnly, scissorLinks, children, material, meshes, geometries,
                    materials, disposed >>

\* link.dispose()
link_dispose ==
    LET left == ScissorLink_dispose(scissorLinks[1],
                                    [meshes |-> meshes, geometries |-> geometries,
                                     children |-> children])
    IN  /\ ~disposed
        /\ children' = left.children
        /\ geometries' = left.geometries
        /\ meshes' = left.meshes
        /\ disposed' = TRUE
        /\ lastCall' = [op |-> "ScissorLink.dispose", arg |-> 0, repeated |-> FALSE]
        /\ UNCHANGED << linkOnly, scissorLinks, material, materials >>

NextLink ==
    \/ \E factor \in FactorInputs : link_setExpansion(factor)
    \/ \E newMaterial \in DOMAIN materials : link_updateMaterial(newMaterial)
    \/ link_getCurrentRadius
    \/ link_dispose

\* one ScissorLink, called directly
SpecLink == InitLink /\ [][NextLink]_vars

\* ------------------------------------------- buildSphere on given vertices
\* the constructor before buildSphere (HobermanSphere.js:17-48), and the
\* vertex positions that buildSphere is to work on
InitVertices ==
    \E n \in 0..MaxVertices : \E vertices \in [1..n -> VertexInputs] :
        /\ options = [vertices |-> vertices]
        /\ baseFaces = 0
        /\ config = Configuration(MainOptions)
        /\ expansionFactor = FScale \div 2
        /\ isAnimating = FALSE
        /\ animationSpeed = 3
        /\ rotationSpeed = 2
        /\ pitchSpeed = 1
        /\ currentPitch = 0
        /\ scissorLinks = << >>
        /\ rotation = ZeroVector
        /\ children = << >>
        /\ groupInScene = TRUE
        /\ material = 1
        /\ meshes = EmptyHeap
        /\ geometries = EmptyHeap
        /\ materials = Alloc(EmptyHeap, createMaterial(MainOptions.color, Metallic))
        /\ now = 0
        /\ disposed = FALSE
        /\ controls = Controls_constructor
        /\ glowEnabled = FALSE
        /\ rendered = 0
        /\ lastFrame = NoFrame
        /\ error = NoError
        /\ lastCall = [op |-> "vertexPositions", arg |-> vertices, repeated |-> FALSE]
        /\ roundTrip = NoRoundTrip

\* buildSphere from removeDuplicateVertices on (HobermanSphere.js:124-132);
\* the unique vertices are kept as the argument of the call
buildFromVertices ==
    /\ lastCall.op = "vertexPositions"
    /\ \E uniqueVertices \in
            {removeDuplicatesWithin(options.vertices, VertexDuplicateThreshold)} :
          \E linked \in
              {createLinks(config, material,
                           [meshes |-> meshes, geometries |-> geometries,
                            children |-> children], uniqueVertices)} :
            \E world \in
                {createConnectingStrutsWithin(config, material, linked.world,
                     uniqueVertices, VertexConnectionThreshold)} :
              /\ scissorLinks' = linked.scissorLinks
              /\ meshes' = world.meshes
              /\ geometries' = world.geometries
              /\ children' = world.children
              /\ lastCall' = [op |-> "buildSphere", arg |-> uniqueVertices,
                              repeated |-> FALSE]
    /\ UNCHANGED << options, baseFaces, config, expansionFactor, isAnimating,
                    animationSpeed, rotationSpeed, pitchSpeed, currentPitch,
                    rotation, groupInScene, material, materials, now, disposed,
                    pageVars, roundTrip >>

NextVertices == buildFromVertices

\* removeDuplicateVertices, the links and the connecting struts of buildSphere
SpecVertices == InitVertices /\ [][NextVertices]_vars

\* ------------------------------------------------------------------ claims
\* C1: between construction and dispose, expansionFactor lies in [0,1] and
\* every owned link's expansionFactor equals it, whatever was called.
C1_ExpansionShared ==
    ~disposed =>
        /\ expansionFactor \in 0..FScale
        /\ \A n \in 1..Len(scissorLinks) :
              scissorLinks[n].expansionFactor = expansionFactor

\* setExpansion(2) has clamped the factor to 1 and pushed 1 to every link
C1_Witness ==
    /\ lastCall.op = "setExpansion" /\ lastCall.arg > FScale
    /\ expansionFactor = FScale
    /\ Len(scissorLinks) > 0
    /\ \A n \in 1..Len(scissorLinks) : scissorLinks[n].expansionFactor = FScale

\* the link and the meshes that link.setExpansion(factor) leads to
LinkAfter(factor) ==
    LET set == ScissorLink_setExpansion(scissorLinks[1], meshes, factor)
    IN  << << set.link >>, set.meshes >>

\* C2: a ScissorLink.setExpansion(f) with f < 0 leaves the link (expansion
\* factor, endpoints) and its meshes (positions, orientations) as
\* setExpansion(0) would, and one with f > 1 as setExpansion(1) would.
C2_LinkClamps ==
    [][lastCall'.op = "ScissorLink.setExpansion" =>
          /\ lastCall'.arg < 0 =>
                << scissorLinks', meshes' >> = LinkAfter(0)
          /\ lastCall'.arg > FScale =>
                << scissorLinks', meshes' >> = LinkAfter(FScale)]_vars

\* setExpansion(-1) has run on a link with a proper axis that was not at 0
C2_Witness ==
    /\ lastCall.op = "ScissorLink.setExpansion" /\ lastCall.arg < 0
    /\ ~lastCall.repeated
    /\ scissorLinks[1].expansionFactor = 0
    /\ scissorLinks[1].axis # ZeroVector
    /\ meshes[scissorLinks[1].strut1].position = scissorLinks[1].position

\* C3: an assembly built with minRadius 2, maxRadius 8 and subdivision level
\* 0 uses level 0 and has exactly 12 links.
C3_TwelveLinks ==
    ("subdivisions" \in DOMAIN options /\ options.subdivisions = 0
        /\ options.minRadius = 2 * VScale /\ options.maxRadius = 8 * VScale)
    => (config.subdivisions = 0 /\ Len(scissorLinks) = 12)

\* C4: the construction of a ScissorLink with a zero-length axis fails, and
\* no mesh has been created or added to the scene.
C4_ZeroAxisFails ==
    options.axis = ZeroVector =>
        (error # NoError /\ DOMAIN meshes = {} /\ children = << >>)

\* C5: before dispose, every mesh of the group uses the assembly's current
\* material, which is not disposed, and a material that was disposed was used
\* by no mesh of the group when it was disposed.
C5_MaterialLive ==
    ~disposed =>
        /\ \A n \in 1..Len(children) : meshes[children[n]].material = material
        /\ \A n \in 1..Len(scissorLinks) : scissorLinks[n].material = material
        /\ materials[material].disposed = 0
        /\ \A m \in DOMAIN materials :
              materials[m].disposed > 0 => materials[m].usersAtDispose = 0

\* updateMaterialType has replaced and disposed the first material
C5_Witness ==
    /\ lastCall.op = "updateMaterialType"
    /\ material # 1
    /\ materials[1].disposed = 1
    /\ \E n \in 1..Len(children) : meshes[children[n]].isConnectionStrut
    /\ \E n \in 1..Len(children) : ~meshes[children[n]].isConnectionStrut

\* the handlers behind the commands of C6: toggle (start and stop), speed,
\* color, material kind, and the frame whose stats read the expansion factor
\* and the animation speed
CommandHandlers ==
    {"Controls.toggleAnimation", "Controls.updateSpeed", "Controls.updateColor",
     "Controls.updateMaterialType", "animate"}

\* C6: every command the page invokes on the assembly exists and completes
\* without error: none of these handlers ends with an exception.
C6_CommandsComplete == lastCall.op \in CommandHandlers => error = NoError

NoAnimationChange ==
    {"update", "setExpansion", "updateColor", "updateMaterialType"}

\* C7: the animation starts Paused; startAnimation leads to Breathing and
\* stopAnimation to Paused from either state; update, setExpansion,
\* updateColor and updateMaterialType leave the animation state alone.
C7_AnimationStates ==
    /\ isAnimating = FALSE
    /\ [][/\ isAnimating' \in BOOLEAN
          /\ lastCall'.op = "startAnimation" => isAnimating'
          /\ lastCall'.op = "stopAnimation" => ~isAnimating'
          /\ lastCall'.op \in NoAnimationChange => isAnimating' = isAnimating]_vars

\* Breathing has been entered by startAnimation
C7_Witness == lastCall.op = "startAnimation" /\ isAnimating

Frozen == << expansionFactor, scissorLinks, meshes, rotation, currentPitch >>

\* C8: while Paused, update leaves the expansion factor, every link and mesh,
\* the rotation and the pitch phase unchanged, and resuming (startAnimation or
\* toggleAnimation) does not reset them.
C8_PausedFrozen ==
    [][/\ (~isAnimating /\ lastCall'.op = "update") => Frozen' = Frozen
       /\ lastCall'.op \in {"startAnimation", "toggleAnimation"}
             => Frozen' = Frozen]_vars

\* update has run while Paused, after frames that had moved the assembly
C8_Witness ==
    /\ lastCall.op = "update" /\ ~isAnimating
    /\ currentPitch > 0 /\ rotation.y > 0
    /\ expansionFactor # FScale \div 2

\* C9: a setExpansion(f) that follows a setExpansion(f) leaves every link and
\* every mesh as the first left them.
C9_Idempotent ==
    [][(lastCall'.op = "setExpansion" /\ lastCall'.repeated)
          => (scissorLinks' = scissorLinks /\ meshes' = meshes
              /\ expansionFactor' = expansionFactor)]_vars

\* setExpansion(0.25) has been called twice in a row
C9_Witness ==
    /\ lastCall.op = "setExpansion" /\ lastCall.repeated
    /\ lastCall.arg = FScale \div 4
    /\ expansionFactor = FScale \div 4

\* C10: after setExpansion(0), setExpansion(1), setExpansion(0), every
\* connecting strut has the midpoint, length and orientation it had after the
\* first of the three calls.
C10_RoundTrip ==
    roundTrip.stage = 3 => StrutGeometry(Sphere) = roundTrip.original

\* the three calls have been made and there are connecting struts
C10_Witness ==
    /\ roundTrip.stage = 3
    /\ DOMAIN roundTrip.original # {}
    /\ expansionFactor = 0

\* the vertices that removeDuplicateVertices has kept among the first n
KeptOf(n) ==
    removeDuplicatesWithin(SubSeq(options.vertices, 1, n), VertexDuplicateThreshold)

\* C11: removeDuplicateVertices keeps a vertex exactly when no vertex kept
\* before it is nearer than 0.0001; the kept vertices are pairwise at least
\* 0.0001 apart, every given vertex is nearer than 0.0001 to a kept one, and
\* there is one ScissorLink per kept vertex: one for two vertices nearer than
\* 0.0001, two for two vertices 0.0002 apart.
C11_Deduplicated ==
    lastCall.op = "buildSphere" =>
        LET given == options.vertices
            unique == lastCall.arg
            near(u, v) == distanceTo(u, v) < VertexDuplicateThreshold
        IN  /\ Len(scissorLinks) = Len(unique)
            /\ unique = KeptOf(Len(given))
            /\ \A n \in 1..Len(given) :
                  KeptOf(n) =
                      IF \E k \in 1..Len(KeptOf(n - 1)) : near(KeptOf(n - 1)[k], given[n])
                      THEN KeptOf(n - 1)
                      ELSE Append(KeptOf(n - 1), given[n])
            /\ \A i, j \in 1..Len(unique) : i # j => ~near(unique[i], unique[j])
            /\ \A n \in 1..Len(given) : \E k \in 1..Len(unique) : near(unique[k], given[n])
            /\ Len(given) = 2 =>
                  /\ near(given[1], given[2]) => Len(scissorLinks) = 1
                  /\ distanceTo(given[1], given[2]) >= 2 * VertexDuplicateThreshold
                        => Len(scissorLinks) = 2

\* (1,0,0), a point 0.00005 from it and a point 0.0002 from it gave two links
C11_Witness ==
    /\ lastCall.op = "buildSphere"
    /\ options.vertices = << Vector3(VertexScale, 0, 0), Vector3(VertexScale, 1, 0),
                             Vector3(VertexScale, 4, 0) >>
    /\ Len(scissorLinks) = 2

\* the connecting struts of the group
ConnectingStruts ==
    {children[n] : n \in {m \in 1..Len(children) : meshes[children[m]].isConnectionStrut}}

\* C12: buildSphere makes exactly one connecting strut for each pair of
\* distinct unique vertices nearer than 1.2 and none for a pair 1.2 or more
\* apart; no pair is connected twice (in either order) and no vertex to itself.
C12_Adjacent ==
    lastCall.op = "buildSphere" =>
        LET unique == lastCall.arg
            joining(i, j) == {m \in ConnectingStruts :
                                 /\ meshes[m].point1 = unique[i]
                                 /\ meshes[m].point2 = unique[j]}
            pairs == {p \in (1..Len(unique)) \X (1..Len(unique)) : p[1] < p[2]}
        IN  /\ \A p \in pairs :
                  Cardinality(joining(p[1], p[2])) + Cardinality(joining(p[2], p[1]))
                      = IF distanceTo(unique[p[1]], unique[p[2]])
                              < VertexConnectionThreshold
                        THEN 1 ELSE 0
            /\ \A i \in 1..Len(unique) : joining(i, i) = {}
            /\ \A m \in ConnectingStruts : \E p \in pairs : m \in joining(p[1], p[2])
            /\ Cardinality(ConnectingStruts) = Len(children) - 3 * Len(scissorLinks)

\* (1,0,0) and the unit vectors at 1.19 and at 1.21 from it: a strut to the
\* first, none to the second, and one between the two
C12_Witness ==
    /\ lastCall.op = "buildSphere"
    /\ options.vertices = << Vector3(VertexScale, 0, 0), Vector3(5839, 19129, 0),
                             Vector3(5359, 19269, 0) >>
    /\ Cardinality(ConnectingStruts) = 2

C14_StrutsSymmetric ==
    lastCall.op = "ScissorLink.setExpansion" =>
        LET link == scissorLinks[1]
            center == link.position
            strut1 == meshes[link.strut1].position
            strut2 == meshes[link.strut2].position
            offset == Div((link.strutLength \div 2) * MathSin(link.expansionFactor),
                          VScale)
            tolerance == 2
        IN  /\ addVectors(strut1, strut2) = addVectors(center, center)
            /\ Abs(distanceTo(strut1, center) - offset) <= tolerance
            /\ Abs(distanceTo(strut2, center) - offset) <= tolerance
            /\ link.expansionFactor = 0 => (strut1 = center /\ strut2 = center)

\* C15: getCurrentRadius returns strutLength/2 at factor 0 and 0 at factor 1,
\* and over the factors 0, 0.001, ..., 1 it never increases with the factor.
C15_RadiusMonotone ==
    lastCall.op = "ScissorLink.getCurrentRadius" =>
        LET link == scissorLinks[1]
            radiusAt(f) ==
                ScissorLink_getCurrentRadius([link EXCEPT !.expansionFactor = f])
        IN  /\ link.expansionFactor = 0 => lastCall.arg = link.strutLength \div 2
            /\ link.expansionFactor = FScale => lastCall.arg = 0
            /\ \A f \in 0..FScale :
                  /\ f <= link.expansionFactor => radiusAt(f) >= lastCall.arg
                  /\ f >= link.expansionFactor => radiusAt(f) <= lastCall.arg
                  /\ f < FScale => radiusAt(f + 1) <= radiusAt(f)

\* getCurrentRadius has returned 0 on a fully expanded link
C15_Witness ==
    /\ lastCall.op = "ScissorLink.getCurrentRadius"
    /\ scissorLinks[1].expansionFactor = FScale
    /\ lastCall.arg = 0

\* C16: after dispose every geometry of the links and of the connecting
\* struts has been disposed, the shared material has been disposed and no
\* geometry was left undisposed when it first was, and no owned mesh is in
\* the scene.
C16_MaterialLast ==
    disposed =>
        /\ \A g \in DOMAIN geometries : geometries[g].disposed >= 1
        /\ materials[material].disposed >= 1
        /\ materials[material].geometriesLeftAtDispose = 0
        /\ scissorLinks = << >> /\ ~groupInScene

\* C17: a speed command with a zero or negative value ends without an error
\* and leaves the assembly with a positive animationSpeed.
C17_SpeedNormalized ==
    (lastCall.op = "Controls.updateSpeed" /\ lastCall.arg <= 0)
        => (error = NoError /\ animationSpeed > 0)

\* C18: after setExpansion has led to factor 0 or to factor 1, the ends of
\* every connecting strut (its two vertices scaled by currentRadius /
\* maxRadius) are as far from the center of the assembly as the outer (top)
\* endpoints of every link, to 0.1.
C18_RadiiAgree ==
    (lastCall.op = "setExpansion" /\ expansionFactor \in {0, FScale}) =>
        LET currentRadius ==
                config.minRadius
                    + Div((config.maxRadius - config.minRadius) * expansionFactor,
                          FScale)
            scaleFactor == Div(currentRadius * VScale, config.maxRadius)
            \* the distance from the origin, through a tenth of the vector
            radial(v) == 10 * length(multiplyScalar(v, VScale \div 10))
            tolerance == VScale \div 10
        IN  \A m \in ConnectingStruts, n \in 1..Len(scissorLinks) :
                \A end \in {meshes[m].point1, meshes[m].point2},
                   outer \in {scissorLinks[n].endpoints.top1,
                              scissorLinks[n].endpoints.top2} :
                    Abs(radial(multiplyScalar(end, scaleFactor)) - radial(outer))
                        <= tolerance

\* C19: a frame of animate that follows another handler reaches
\* renderer.render, and does so with every link at the assembly's expansion
\* factor and every connecting strut placed for it.
C19_FrameRendered ==
    [][(lastCall'.op = "animate" /\ lastCall.op # "animate") =>
          /\ rendered' = rendered + 1
          /\ \A n \in 1..Len(scissorLinks') :
                scissorLinks'[n].expansionFactor = expansionFactor'
          /\ isAnimating => meshes' = updateConnectionStruts(Sphere').meshes]_vars

\* C20: an update while animating sets the expansion factor to
\* sin(Date.now() * 0.001 * animationSpeed) * 0.5 + 0.5, a function of the
\* clock and the speed alone: whatever deltaTime is, however many frames ran
\* before and whatever the factor was.
C20_BreathingFromClock ==
    [][(lastCall'.op = "update" /\ isAnimating /\ now' = now) =>
          expansionFactor' = Clamp01(breathingCycle(now, animationSpeed))]_vars

\* the second frame in a row, after the clock has moved, has set the factor
C20_Witness ==
    /\ lastCall.op = "update" /\ isAnimating
    /\ currentPitch = 2 * pitchSpeed * AnglePerStep
    /\ now > 0
    /\ expansionFactor = breathingCycle(now, animationSpeed)
    /\ expansionFactor # FScale \div 2

\* C21: after a speed command with a positive value, given while animating,
\* the phase (wall-clock seconds * animationSpeed) used by the next frame is
\* the phase of the last frame before the command plus the time between the
\* two frames times the new speed.
C21_PhaseContinuous ==
    [][(/\ lastCall'.op = "animate" /\ now' = now
        /\ lastCall.op = "Controls.updateSpeed" /\ lastCall.arg > 0
        /\ isAnimating /\ lastFrame.at >= 0)
          => lastFrame'.phase =
                lastFrame.phase + (now - lastFrame.at) * lastCall.arg * AnglePerStep]_vars

\* C22: whenever the material kind is none of metallic, matte and glossy, the
\* shared material has metalness 0.9 and roughness 0.2 and no emissive tint
\* (its emissive colour is black), also after updateColor.
C22_FallbackUntinted ==
    config.materialType \notin {Metallic, Matte, Glossy} =>
        /\ materials[material].metalness = 90
        /\ materials[material].roughness = 20
        /\ materials[material].emissive = 0

\* C23: after updateColor(c) the material of every mesh of every link and of
\* every connecting strut has color c; updateMaterialType keeps the color:
\* the material it puts in place, on every mesh, has the color of the one it
\* replaces.
C23_ColorKept ==
    [][LET colors(ms, mats, cs, ls) ==
               {mats[ms[cs[n]].material].color : n \in 1..Len(cs)}
                   \cup {mats[ls[n].material].color : n \in 1..Len(ls)}
       IN  /\ lastCall'.op = "updateColor" =>
                 /\ colors(meshes', materials', children', scissorLinks')
                        = {lastCall'.arg}
                 /\ materials'[material'].color = lastCall'.arg
           /\ lastCall'.op = "updateMaterialType" =>
                 /\ colors(meshes', materials', children', scissorLinks')
                        = {materials[material].color}
                 /\ materials'[material'].color = materials[material].color]_vars

\* updateMaterialType has replaced a material that updateColor had retinted
C23_Witness ==
    /\ lastCall.op = "updateMaterialType"
    /\ material # 1
    /\ materials[1].color = 16729156 /\ materials[material].color = 16729156
    /\ \E n \in 1..Len(children) : meshes[children[n]].isConnectionStrut
    /\ Len(scissorLinks) > 0

\* C24: for a link with a unit axis, the reference vector ((0,1,0) when
\* |axis.y| < 0.9, otherwise (1,0,0)) is not parallel to the axis: axis x
\* reference is at least 0.43 long before it is normalized, and the direction
\* the struts are moved apart in (perp1), the axis they are turned about
\* (perp2) and the link's axis are unit vectors perpendicular to each other
\* (to three units of 1/VScale).
C24_Perpendicular ==
    scissorLinks[1].axis # ZeroVector =>
        LET link == scissorLinks[1]
            axis == link.axis
            reference == IF Abs(axis.y) * 10 < 9 * VScale THEN UnitY ELSE UnitX
            raw == crossVectors(axis, reference)
            dot(a, b) == Div(a.x * b.x + a.y * b.y + a.z * b.z, VScale)
            apart == subVectors(meshes[link.strut1].position, link.position)
            perp2 == meshes[link.strut1].quaternion.rotations[1].axis
            tolerance == 3
        IN  /\ Abs(length(axis) - VScale) <= tolerance
            /\ crossVectors(axis, ReferenceUp(axis)) = raw
            /\ length(raw) >= 43 * (VScale \div 100)
            /\ Abs(dot(axis, reference)) <= 9 * (VScale \div 10)
            /\ Abs(length(perp2) - VScale) <= tolerance
            /\ Abs(dot(perp2, axis)) <= tolerance
            /\ Abs(dot(apart, axis)) <= tolerance
            /\ Abs(dot(apart, perp2)) <= tolerance
            /\ link.expansionFactor > 0 => apart # ZeroVector
            /\ apart = multiplyScalar(normalize(raw),
                          Div((link.strutLength \div 2) * MathSin(link.expansionFactor),
                              VScale))

\* setExpansion has opened a link whose axis is (0,-1,0), for which the
\* reference vector is (1,0,0)
C24_Witness ==
    /\ lastCall.op = "ScissorLink.setExpansion"
    /\ scissorLinks[1].axis = Vector3(0, -VScale, 0)
    /\ scissorLinks[1].expansionFactor = FScale
    /\ meshes[scissorLinks[1].strut1].position # scissorLinks[1].position

\* C25: in every state, from construction on, every connecting strut has the
\* midpoint and the length (scale.y times its geometry's height) that
\* updateConnectionStruts computes for the current expansion factor.
C25_StrutsCurrent ==
    LET placed == updateConnectionStruts(Sphere).meshes
    IN  \A m \in ConnectingStruts :
            /\ meshes[m].position = placed[m].position
            /\ meshes[m].scaleY = placed[m].scaleY

\* C26: after any sequence of clicks on the toggle button and of direct
\* startAnimation, stopAnimation and toggleAnimation calls, the isAnimating
\* flag of the Controls object (and with it the label of the button) equals
\* the isAnimating flag of the assembly.
C26_FlagsAgree == controls.isAnimating = isAnimating

\* C27: while the glow toggle is enabled, after every frame of animate the
\* material of every mesh of the assembly has the glow emissive intensity
\* 0.4, also when updateMaterialType has changed the material since the glow
\* was enabled.
C27_GlowKept ==
    (lastCall.op = "animate" /\ controls.glowEnabled) =>
        /\ materials[material].emissiveIntensity = 40
        /\ \A n \in 1..Len(children) :
              materials[meshes[children[n]].material].emissiveIntensity = 40

\* C28: once a frame has taken the glow off again, the material of a known
\* kind has the emissive intensity of its kind, as before the glow was put
\* on: 0.1 for metallic, 0.05 for matte, 0.15 for glossy.
C28_GlowRestored ==
    (lastCall.op = "animate" /\ ~controls.glowEnabled /\ ~glowEnabled
        /\ config.materialType \in {Metallic, Matte, Glossy}) =>
        materials[material].emissiveIntensity =
            CASE config.materialType = Metallic -> 10
              [] config.materialType = Matte -> 5
              [] config.materialType = Glossy -> 15

\* C29: dispose releases every owned resource exactly once: the shared
\* material once, and once each geometry (the strut geometry that the two
\* struts of a link share, every pivot geometry, every connecting strut's
\* geometry).
C29_ReleasedOnce ==
    disposed =>
        /\ materials[material].disposed = 1
        /\ \A g \in DOMAIN geometries : geometries[g].disposed = 1

\* C30: after any sequence of mouse, wheel and touch events the orbit radius
\* of the camera is within [12, 60] and phi within [0.1, pi - 0.1]; a drag
\* is in progress exactly from a mouse-down or a touch-start with one finger
\* to the next mouse-up or touch-end, and a mouse-move or touch-move outside
\* a drag changes neither theta nor phi.
C30_OrbitBounded ==
    /\ [](/\ controls.cameraRotation.radius >= 12 * VScale
          /\ controls.cameraRotation.radius <= 60 * VScale
          /\ controls.cameraRotation.phi >= VScale \div 10
          /\ controls.cameraRotation.phi <= MathPI - VScale \div 10)
    /\ [][LET op == lastCall'.op
              starts == op = "onMouseDown"
                           \/ (op = "onTouchStart" /\ lastCall'.arg = 1)
              ends == op \in {"onMouseUp", "onTouchEnd"}
          IN  /\ controls'.mouse.isDragging =
                    IF starts THEN TRUE
                    ELSE IF ends THEN FALSE
                    ELSE controls.mouse.isDragging
              /\ (op \in {"onMouseMove", "onTouchMove"}
                     /\ ~controls.mouse.isDragging)
                    => /\ controls'.cameraRotation = controls.cameraRotation
                       /\ controls'.cameraPosition = controls.cameraPosition]_vars

\* the wheel has been turned away at radius 60, after a drag had brought phi
\* down to 0.1 and turned theta, and with no drag in progress
C30_Witness ==
    /\ lastCall.op = "onMouseWheel" /\ lastCall.arg > 0
    /\ controls.cameraRotation.radius = 60 * VScale
    /\ controls.cameraRotation.phi = VScale \div 10
    /\ controls.cameraRotation.theta # 0
    /\ ~controls.mouse.isDragging

====
